---- MODULE Spec2Model ----
(***************************************************************************)
(* Transitive trust propagation (src/src/transitive_trust.rs).             *)
(*                                                                         *)
(* A Graph is built by edge insertion, then compute_scores(graph, source)  *)
(* runs a best-first relaxation over a priority queue and returns one      *)
(* Result per node other than the source.                                  *)
(*                                                                         *)
(* f32 values are modelled as exact fixed-point numbers: a score s is the  *)
(* integer s * Scale, an edge weight w is the integer w * 10 (tenths).     *)
(* Scale is chosen so that every product of the bounded runs is exact.     *)
(*                                                                         *)
(* PriorityQueue<String, u32> is the priority_queue crate's map-backed     *)
(* queue: an item is held at most once, push of a held item replaces its   *)
(* priority, pop removes an item of maximum priority (which one among      *)
(* equals depends on the heap layout, hence on HashMap iteration order).   *)
(***************************************************************************)
EXTENDS Integers, Sequences, FiniteSets, TLC

VARIABLES
    pc,          \* position: "build", "loop", "relax", "done"
    nodes,       \* Graph.nodes : identifier -> Node
    source,      \* compute_scores' source argument
    p_scores,    \* identifier -> p_score
    n_scores,    \* identifier -> n_score
    inspected,   \* set of identifiers popped and accepted
    pq,          \* identifier -> u32 priority
    node_key,    \* the node popped last
    node_score,  \* max(0, p - n) of node_key at its pop
    todo,        \* neighbours of node_key the for loop has not reached yet
    results,     \* the Vec<Result> returned
    pops,        \* number of pq.pop() calls
    pushes,      \* number of pq.push() calls
    relaxations, \* number of neighbour relaxations (loop bodies not skipped)
    tie          \* whether some pop found two items of maximum priority

vars == <<pc, nodes, source, p_scores, n_scores, inspected, pq,
          node_key, node_score, todo, results, pops, pushes,
          relaxations, tie>>

----------------------------------------------------------------------------
\* Bounds of the model.

\* Edges (positive and negative entries together) of the graphs a caller builds.
MaxEdges == 3

\* Identifiers the caller inserts edges between.
Ids == {"A", "B", "C"}

\* Identifiers the caller passes as source. The graphs range over every
\* arrangement of edges between Ids (those without "A" included), so one
\* source covers every case up to renaming.
Sources == {"A"}

\* Edge weights the caller uses, in tenths: 0.0, 0.5, 1.0.
Weights == {0, 5, 10}

RECURSIVE Pow10(_)
Pow10(k) == IF k = 0 THEN 1 ELSE 10 * Pow10(k - 1)

\* One unit of score. A relaxation adds at most one decimal digit to a score,
\* and a run relaxes each edge at most once: at most MaxEdges relaxations on a
\* built graph, 4 on run_job's.
Scale == Pow10(MaxEdges + 1)

\* node_key before the first pop, source before compute_scores is called
NoNode == "-"

----------------------------------------------------------------------------
\* f32 arithmetic on the fixed-point representation.

\* the literal 1.
One == Scale

\* the decimal num/den as a score
Dec(num, den) == (num * Scale) \div den

\* x * w for a score (difference) x and a weight w in tenths
MulWeight(x, w) == (x * w) \div 10

\* (x * 10.0) as u32: truncation toward zero, negative values saturate to 0
\* (the scores of the bounded runs stay far below u32::MAX / 10)
as_u32_times10(x) == IF x <= 0 THEN 0 ELSE (x * 10) \div Scale

\* f32::max(x, 0.)
max0(x) == IF x > 0 THEN x ELSE 0

----------------------------------------------------------------------------
\* HashMap helpers.

EmptyMap == [k \in {} |-> 0]

\* HashMap::insert
Insert(m, k, v) == [x \in (DOMAIN m) \cup {k} |-> IF x = k THEN v ELSE m[x]]

\* HashMap::remove of a present key
Remove(m, k) == [x \in (DOMAIN m) \ {k} |-> m[x]]

----------------------------------------------------------------------------
\* Node

Node_new == [positive_edges |-> EmptyMap, negative_edges |-> EmptyMap]

Node_add_positive_edge(node, target, weight) ==
    [node EXCEPT !.positive_edges = Insert(@, target, weight)]

Node_add_negative_edge(node, target, weight) ==
    [node EXCEPT !.negative_edges = Insert(@, target, weight)]

Node_get_positive_weight(node, target) ==
    IF target \in DOMAIN node.positive_edges
    THEN node.positive_edges[target] ELSE 0

Node_get_negative_weight(node, target) ==
    IF target \in DOMAIN node.negative_edges
    THEN node.negative_edges[target] ELSE 0

out_neighbours(node) ==
    (DOMAIN node.positive_edges) \cup (DOMAIN node.negative_edges)

----------------------------------------------------------------------------
\* Graph

Graph_new == EmptyMap

\* the two contains_key / insert(Node::new()) guards of both edge insertions
WithEndpoints(g, src, target) ==
    LET g1 == IF src \in DOMAIN g THEN g ELSE Insert(g, src, Node_new)
    IN  IF target \in DOMAIN g1 THEN g1 ELSE Insert(g1, target, Node_new)

Graph_add_positive_edge(g, src, target, weight) ==
    LET g2 == WithEndpoints(g, src, target)
    IN  Insert(g2, src, Node_add_positive_edge(g2[src], target, weight))

Graph_add_negative_edge(g, src, target, weight) ==
    LET g2 == WithEndpoints(g, src, target)
    IN  Insert(g2, src, Node_add_negative_edge(g2[src], target, weight))

Graph_get_positive_weight(g, src, target) ==
    Node_get_positive_weight(g[src], target)

Graph_get_negative_weight(g, src, target) ==
    Node_get_negative_weight(g[src], target)

\* the set of keys for_each_node iterates over (in HashMap order)
for_each_node(g) == DOMAIN g

\* the set of keys for_each_neighbour iterates over (in HashSet order)
for_each_neighbour(g, node) == out_neighbours(g[node])

\* number of edge entries (positive and negative) held by the graph
EdgeCount(g) ==
    LET RECURSIVE Sum(_)
        Sum(S) == IF S = {} THEN 0
                  ELSE LET x == CHOOSE y \in S : TRUE
                       IN  Cardinality(DOMAIN g[x].positive_edges)
                           + Cardinality(DOMAIN g[x].negative_edges)
                           + Sum(S \ {x})
    IN  Sum(DOMAIN g)

----------------------------------------------------------------------------
\* PriorityQueue<String, u32>

\* push: insert, or replace the priority of an item already held
pq_push(q, item, priority) == Insert(q, item, priority)

\* a pop that leaves the popped item in the queue
pq_remove_peek(q, item) == q

\* pop's removal of the item it returns
pq_remove(q, item) == Remove(q, item)

\* a pop that returns any item, whatever its priority
pq_any_items(q) == DOMAIN q

\* the items pop may return: those of maximum priority
pq_max_items(q) == {i \in DOMAIN q : \A j \in DOMAIN q : q[j] <= q[i]}

\* two items share the maximum priority: which one pop returns depends on the
\* heap's layout, that is on the order of the pushes
has_tie(q) ==
    \E i, j \in DOMAIN q :
        /\ i # j
        /\ q[i] = q[j]
        /\ \A k \in DOMAIN q : q[k] <= q[i]

----------------------------------------------------------------------------
\* compute_scores: the pieces of the loop body

\* every node initialised to 1.
init_p_score_all(node, src) == One

\* the branches of the conditional exchanged
init_p_score_swapped(node, src) == IF node = src THEN 0 ELSE One

\* line 130
init_p_score(node, src) == IF node = src THEN One ELSE 0

\* the inspected test left out
skip_neighbour_uninspected(insp, neighbor_key, neighbor_score, nscore) ==
    neighbor_score > nscore

\* line 150: the neighbour is skipped
skip_neighbour(insp, neighbor_key, neighbor_score, nscore) ==
    neighbor_key \in insp \/ neighbor_score > nscore

\* the update without its guard
relaxed_score_unguarded(nscore, neighbour_score, weight) ==
    neighbour_score + MulWeight(nscore - neighbour_score, weight)

\* the interpolation taken from the wrong end
relaxed_score_reversed(nscore, neighbour_score, weight) ==
    IF nscore > neighbour_score
    THEN nscore - MulWeight(nscore - neighbour_score, weight)
    ELSE neighbour_score

\* the weight applied to node_score alone
relaxed_score_flat(nscore, neighbour_score, weight) ==
    IF nscore > neighbour_score
    THEN MulWeight(nscore, weight)
    ELSE neighbour_score

\* lines 160-164 and 166-170: one channel's update
relaxed_score(nscore, neighbour_score, weight) ==
    IF nscore > neighbour_score
    THEN neighbour_score + MulWeight(nscore - neighbour_score, weight)
    ELSE neighbour_score

\* the priority taken from p_score alone, as in the initial pushes
push_priority_p_only(p_score, n_score) == as_u32_times10(p_score)

\* lines 174-177: the priority a neighbour is pushed with
push_priority(p_score, n_score) == as_u32_times10(p_score - n_score)

\* lines 129-134: the tables and the queue after the initial pushes
initial_tables(g, src) ==
    [p |-> [n \in for_each_node(g) |-> init_p_score(n, src)],
     n |-> [n \in for_each_node(g) |-> 0],
     q |-> [n \in for_each_node(g) |->
               as_u32_times10(init_p_score(n, src))]]

\* lines 147-177: the loop body for neighbour v of the accepted node key,
\* on the tables t = [p, n, q]
relax_neighbour(g, key, nscore, insp, t, v) ==
    LET neighbor_score == t.p[v] - t.n[v]
        positive_weight == Graph_get_positive_weight(g, key, v)
        negative_weight == Graph_get_negative_weight(g, key, v)
        new_p == relaxed_score(nscore, t.p[v], positive_weight)
        new_n == relaxed_score(nscore, t.n[v], negative_weight)
    IN  IF skip_neighbour(insp, v, neighbor_score, nscore)
        THEN t
        ELSE [p |-> Insert(t.p, v, new_p),
              n |-> Insert(t.n, v, new_n),
              q |-> pq_push(t.q, v, push_priority(new_p, new_n))]

\* whether the loop body reaches the push for neighbour v
is_relaxed(insp, t, v, nscore) ==
    ~ skip_neighbour(insp, v, t.p[v] - t.n[v], nscore)

\* lines 146-178: the whole neighbour loop, in one of its orders
RECURSIVE relax_all(_, _, _, _, _, _)
relax_all(g, key, nscore, insp, t, S) ==
    IF S = {} THEN t
    ELSE LET v == CHOOSE x \in S : TRUE
         IN  relax_all(g, key, nscore, insp,
                       relax_neighbour(g, key, nscore, insp, t, v), S \ {v})

\* lines 136-179: the whole loop, popping one fixed item among equal priorities
RECURSIVE run_loop(_, _, _)
run_loop(g, insp, t) ==
    IF t.q = EmptyMap THEN t
    ELSE LET k == CHOOSE i \in pq_max_items(t.q) : TRUE
             t1 == [t EXCEPT !.q = pq_remove(t.q, k)]
         IN  IF k \in insp
             THEN run_loop(g, insp, t1)
             ELSE run_loop(g, insp \cup {k},
                           relax_all(g, k, max0(t.p[k] - t.n[k]),
                                     insp \cup {k}, t1,
                                     for_each_neighbour(g, k)))

\* lines 123-179: the final tables of one run of compute_scores
compute_scores(g, src) == run_loop(g, {}, initial_tables(g, src))

\* p_score and n_score exchanged
Result_new_swapped(node, p_score, n_score) ==
    [node |-> node, p_score |-> n_score, n_score |-> p_score]

\* lines 15-21
Result_new(node, p_score, n_score) ==
    [node |-> node, p_score |-> p_score, n_score |-> n_score]

\* lines 23-25
net_score(result) == result.p_score - result.n_score

\* the orders in which an iteration can visit the elements of S
Orders(S) ==
    {o \in [1..Cardinality(S) -> S] :
        \A i, j \in 1..Cardinality(S) : i # j => o[i] # o[j]}

\* lines 181-189: the Vec built when the nodes other than the source are
\* met in order o
results_in_order(o, ps, ns) ==
    [i \in 1..Len(o) |-> Result_new(o[i], ps[o[i]], ns[o[i]])]

----------------------------------------------------------------------------
Init ==
    /\ pc = "build"
    /\ nodes = Graph_new
    /\ source = NoNode
    /\ p_scores = EmptyMap
    /\ n_scores = EmptyMap
    /\ inspected = {}
    /\ pq = EmptyMap
    /\ node_key = NoNode
    /\ node_score = 0
    /\ todo = {}
    /\ results = <<>>
    /\ pops = 0
    /\ pushes = 0
    /\ relaxations = 0
    /\ tie = FALSE

runVars == <<source, p_scores, n_scores, inspected, pq, node_key, node_score,
             todo, results, pops, pushes, relaxations, tie>>

\* Graph::add_positive_edge called by the graph's builder: a new entry while
\* the graph holds fewer than MaxEdges, or an overwrite of an entry
AddPositiveEdge ==
    /\ pc = "build"
    /\ LET room == EdgeCount(nodes) < MaxEdges
       IN  \E s \in Ids, t \in Ids, w \in Weights :
              /\ room \/ (s \in DOMAIN nodes
                            /\ t \in DOMAIN nodes[s].positive_edges)
              /\ nodes' = Graph_add_positive_edge(nodes, s, t, w)
    /\ UNCHANGED <<pc, runVars>>

\* Graph::add_negative_edge called by the graph's builder
AddNegativeEdge ==
    /\ pc = "build"
    /\ LET room == EdgeCount(nodes) < MaxEdges
       IN  \E s \in Ids, t \in Ids, w \in Weights :
              /\ room \/ (s \in DOMAIN nodes
                            /\ t \in DOMAIN nodes[s].negative_edges)
              /\ nodes' = Graph_add_negative_edge(nodes, s, t, w)
    /\ UNCHANGED <<pc, runVars>>

\* compute_scores, lines 124-134: the tables and the initial pushes
Start(g, src) ==
    /\ source' = src
    /\ p_scores' = initial_tables(g, src).p
    /\ n_scores' = initial_tables(g, src).n
    /\ pq' = initial_tables(g, src).q
    /\ inspected' = {}
    /\ pushes' = Cardinality(for_each_node(g))
    /\ pc' = "loop"
    /\ UNCHANGED <<node_key, node_score, todo, results, pops, relaxations, tie>>

\* a caller's compute_scores(graph, source) on the graph built so far
ComputeScores ==
    /\ pc = "build"
    /\ \E src \in Sources : Start(nodes, src)
    /\ UNCHANGED nodes

\* run_job, lines 195-199: the sample graph
run_job_graph ==
    LET g1 == Graph_add_positive_edge(Graph_new, "A", "B", 6)
        g2 == Graph_add_positive_edge(g1, "B", "C", 4)
        g3 == Graph_add_positive_edge(g2, "C", "D", 5)
    IN  Graph_add_positive_edge(g3, "A", "C", 5)

\* run_job, lines 195-200: the sample graph, then compute_scores(graph, "A")
RunJob ==
    /\ pc = "build"
    /\ nodes = Graph_new
    /\ nodes' = run_job_graph
    /\ Start(run_job_graph, "A")

\* lines 136-144: pop, the stale-entry test, the accepted node's score
Pop ==
    /\ pc = "loop"
    /\ pq # EmptyMap
    /\ \E k \in pq_max_items(pq) :
          /\ pq' = pq_remove(pq, k)
          /\ pops' = pops + 1
          /\ tie' = (tie \/ has_tie(pq))
          /\ IF k \in inspected
             THEN UNCHANGED <<inspected, node_key, node_score, todo, pc>>
             ELSE /\ inspected' = inspected \cup {k}
                  /\ node_key' = k
                  /\ node_score' = max0(p_scores[k] - n_scores[k])
                  /\ todo' = for_each_neighbour(nodes, k)
                  /\ pc' = IF for_each_neighbour(nodes, k) = {}
                           THEN "loop" ELSE "relax"
    /\ UNCHANGED <<nodes, source, p_scores, n_scores, results, pushes,
                   relaxations>>

\* lines 146-178: one iteration of the neighbour loop
Relax ==
    /\ pc = "relax"
    /\ \E v \in todo :
          LET t  == [p |-> p_scores, n |-> n_scores, q |-> pq]
              t1 == relax_neighbour(nodes, node_key, node_score, inspected,
                                    t, v)
              pushed == IF is_relaxed(inspected, t, v, node_score)
                        THEN 1 ELSE 0
          IN  /\ todo' = todo \ {v}
              /\ pc' = IF todo \ {v} = {} THEN "loop" ELSE "relax"
              /\ p_scores' = t1.p
              /\ n_scores' = t1.n
              /\ pq' = t1.q
              /\ pushes' = pushes + pushed
              /\ relaxations' = relaxations + pushed
    /\ UNCHANGED <<nodes, source, inspected, node_key, node_score, results,
                   pops, tie>>

\* line 136 false, lines 181-191: the loop ends, the results are collected
\* in for_each_node order, the source left out, and returned
Return ==
    /\ pc = "loop"
    /\ pq = EmptyMap
    /\ \E o \in Orders(for_each_node(nodes) \ {source}) :
          results' = results_in_order(o, p_scores, n_scores)
    /\ pc' = "done"
    /\ UNCHANGED <<nodes, source, p_scores, n_scores, inspected, pq, node_key,
                   node_score, todo, pops, pushes, relaxations, tie>>

Next ==
    \/ AddPositiveEdge
    \/ AddNegativeEdge
    \/ ComputeScores
    \/ RunJob
    \/ Pop
    \/ Relax
    \/ Return

Spec == Init /\ [][Next]_vars

\* compute_scores is straight-line sequential code: once called it keeps
\* taking its next step
FairSpec == Spec /\ WF_vars(Pop) /\ WF_vars(Relax) /\ WF_vars(Return)

----------------------------------------------------------------------------
\* Vocabulary of the properties.

\* the nodes reachable from src along edges of either channel
Reach(g, src) ==
    LET RECURSIVE R(_)
        R(S) == LET S2 == S \cup UNION {for_each_neighbour(g, x) : x \in S}
                IN  IF S2 = S THEN S ELSE R(S2)
    IN  R({src})

\* the largest number of out-neighbours of a node
MaxOutDegree(g) ==
    IF DOMAIN g = {} THEN 0
    ELSE CHOOSE d \in {Cardinality(for_each_neighbour(g, x)) : x \in DOMAIN g} :
            \A y \in DOMAIN g : Cardinality(for_each_neighbour(g, y)) <= d

\* every recorded weight is non-negative
NonNegativeWeights(g) ==
    \A x \in DOMAIN g :
        /\ \A y \in DOMAIN g[x].positive_edges : g[x].positive_edges[y] >= 0
        /\ \A y \in DOMAIN g[x].negative_edges : g[x].negative_edges[y] >= 0

\* the returned Vec holds Result{v, p, n}
HasResult(v, p, n) ==
    \E i \in 1..Len(results) :
        results[i] = [node |-> v, p_score |-> p, n_score |-> n]

\* compute_scores has been called
Called == pc # "build"

\* the step handles neighbour v of the accepted node
Handles(v) == pc = "relax" /\ v \in todo /\ v \notin todo'

----------------------------------------------------------------------------
\* C1, as claimed: a source that is no node of the graph makes compute_scores
\* fail before any pop or relaxation, and nothing is returned.
C1_AbsentSourceFails ==
    (Called /\ source \notin DOMAIN nodes) => (pops = 0 /\ pc # "done")

\* C1, amended: with a source that is no node of the graph compute_scores
\* does not fail; every node holds (0, 0) throughout the run and the call
\* returns one Result (0, 0) per node.
C1_AbsentSourceAllZero ==
    (Called /\ source \notin DOMAIN nodes) =>
        /\ \A v \in DOMAIN nodes : p_scores[v] = 0 /\ n_scores[v] = 0
        /\ pc = "done" =>
              /\ Len(results) = Cardinality(DOMAIN nodes)
              /\ \A v \in DOMAIN nodes : HasResult(v, 0, 0)

C1_Witness ==
    /\ pc = "done"
    /\ source \notin DOMAIN nodes
    /\ Len(results) >= 2
    /\ pops >= 2
    /\ relaxations >= 1

\* C2, as claimed: run_job's graph with source A yields B = (0.6, 0) and
\* D = (0.25, 0).
C2_RunJobAsClaimed ==
    (pc = "done" /\ nodes = run_job_graph /\ source = "A") =>
        /\ HasResult("B", Dec(6, 10), 0)
        /\ HasResult("D", Dec(25, 100), 0)

\* C2, amended: run_job's graph with source A yields B = (0.6, 0),
\* C = (0.54, 0) and D = (0.27, 0): D receives 0.5 of C's 0.54.
C2_RunJobScores ==
    (pc = "done" /\ nodes = run_job_graph /\ source = "A") =>
        /\ HasResult("B", Dec(6, 10), 0)
        /\ HasResult("C", Dec(54, 100), 0)
        /\ HasResult("D", Dec(27, 100), 0)

C2_Witness ==
    /\ pc = "done"
    /\ nodes = run_job_graph
    /\ source = "A"
    /\ Len(results) = 3
    /\ relaxations = 4

\* C3, as claimed: every run ends with the scores of any other run on the
\* same graph and source, whichever item is popped among equal priorities.
C3_AllRunsAgree ==
    pc = "done" =>
        /\ p_scores = compute_scores(nodes, source).p
        /\ n_scores = compute_scores(nodes, source).n

\* C3, amended: a run in which no pop finds two items sharing the maximum
\* priority ends with the scores of any other run on the same graph and
\* source, whatever the order of the nodes and of the neighbours.
C3_TieFreeRunsAgree ==
    (pc = "done" /\ ~ tie) =>
        /\ p_scores = compute_scores(nodes, source).p
        /\ n_scores = compute_scores(nodes, source).n

C3_Witness ==
    /\ pc = "done"
    /\ ~ tie
    /\ Cardinality(DOMAIN nodes) = 3
    /\ relaxations >= 3
    /\ \E v \in DOMAIN nodes : v # source /\ n_scores[v] > 0

\* C4: with non-negative weights no step lowers a node's p_score or n_score.
C4_Monotone ==
    [][NonNegativeWeights(nodes) =>
          \A v \in (DOMAIN p_scores) \cap (DOMAIN p_scores') :
              /\ p_scores'[v] >= p_scores[v]
              /\ n_scores'[v] >= n_scores[v]]_vars

\* a node raised twice: 0 -> 0.5 by the source, 0.5 -> 0.75 by a second node
C4_Witness ==
    /\ Called
    /\ NonNegativeWeights(nodes)
    /\ \E v \in DOMAIN p_scores : v # source /\ p_scores[v] = Dec(75, 100)

\* C5, the counts: pops <= pushes <= V + relaxations, and
\* relaxations <= V * maximum out-degree.
C5_Counts ==
    Called =>
        /\ pops <= pushes
        /\ pushes <= Cardinality(DOMAIN nodes) + relaxations
        /\ relaxations <= Cardinality(DOMAIN nodes) * MaxOutDegree(nodes)

\* C5: the relaxation loop terminates with an empty frontier, and the counts
\* hold over the whole run.
C5_Terminates ==
    /\ []C5_Counts
    /\ (pc = "loop") ~> (pc = "done" /\ pq = EmptyMap)

C5_Witness ==
    /\ pc = "done"
    /\ pq = EmptyMap
    /\ pops = 3
    /\ relaxations = 3
    /\ pushes = 6

\* C6: the step that relaxes neighbour v over a positive weight of 0 leaves
\* p_score[v] unchanged, over a negative weight of 0 leaves n_score[v]
\* unchanged.
C6_ZeroWeight ==
    [][\A v \in Ids :
          Handles(v) =>
              /\ Graph_get_positive_weight(nodes, node_key, v) = 0
                    => p_scores'[v] = p_scores[v]
              /\ Graph_get_negative_weight(nodes, node_key, v) = 0
                    => n_scores'[v] = n_scores[v]]_vars

\* neighbour v has been relaxed over a recorded positive weight of 0 by a
\* node whose score exceeds p_score[v], and its n_score was raised
C6_Witness ==
    /\ pc \in {"loop", "relax"}
    /\ node_key \in DOMAIN nodes
    /\ \E v \in for_each_neighbour(nodes, node_key) \ todo :
          /\ v \notin inspected
          /\ v \in DOMAIN nodes[node_key].positive_edges
          /\ Graph_get_positive_weight(nodes, node_key, v) = 0
          /\ node_score > p_scores[v]
          /\ n_scores[v] > 0

\* C7: with the source in the graph, a node not reachable from it holds
\* (0, 0) throughout the run and is returned with (0, 0).
C7_UnreachableStayZero ==
    (Called /\ source \in DOMAIN nodes) =>
        \A v \in (DOMAIN nodes) \ Reach(nodes, source) :
            /\ p_scores[v] = 0
            /\ n_scores[v] = 0
            /\ pc = "done" => HasResult(v, 0, 0)

\* an unreachable node with an edge into the part the source reaches
C7_Witness ==
    /\ pc = "done"
    /\ source \in DOMAIN nodes
    /\ relaxations >= 2
    /\ \E v \in (DOMAIN nodes) \ Reach(nodes, source) :
          for_each_neighbour(nodes, v) \cap Reach(nodes, source) # {}

\* C8: after initialisation the source holds (1, 0); the returned Vec holds
\* exactly one Result per node other than the source, with the node's final
\* scores, and none for the source.
C8_SourceAndResults ==
    source \in DOMAIN nodes =>
        /\ (pc = "loop" /\ pops = 0) =>
              p_scores[source] = One /\ n_scores[source] = 0
        /\ pc = "done" =>
              /\ Len(results) = Cardinality(DOMAIN nodes) - 1
              /\ \A v \in (DOMAIN nodes) \ {source} :
                    HasResult(v, p_scores[v], n_scores[v])
              /\ \A i \in 1..Len(results) : results[i].node # source

C8_Witness ==
    /\ pc = "done"
    /\ source \in DOMAIN nodes
    /\ Len(results) = 2
    /\ results[1].p_score > results[1].n_score
    /\ results[2].n_score > results[2].p_score

\* C9, as claimed: when the accepted node is its own neighbour, the loop
\* body relaxes it: over a negative self-loop of weight > 0, with node_score
\* above the node's n_score, the step raises the node's own n_score.
C9_SelfRelaxed ==
    [][(/\ Handles(node_key)
        /\ Graph_get_negative_weight(nodes, node_key, node_key) > 0
        /\ node_score > n_scores[node_key])
          => (/\ relaxations' = relaxations + 1
              /\ n_scores'[node_key] > n_scores[node_key])]_vars

\* C9, amended: a self-loop is recorded by edge insertion, but the accepted
\* node is already inspected when the loop body meets it as its own
\* neighbour: the body is skipped, the node's scores and the queue are left
\* as they are.
C9_SelfSkipped ==
    [][Handles(node_key) =>
          /\ p_scores' = p_scores
          /\ n_scores' = n_scores
          /\ pq' = pq
          /\ relaxations' = relaxations]_vars

\* the accepted node has met itself over a negative self-loop that a
\* relaxation would have applied
C9_Witness ==
    /\ pc \in {"loop", "relax"}
    /\ node_key \in DOMAIN nodes
    /\ node_key \in for_each_neighbour(nodes, node_key) \ todo
    /\ Graph_get_negative_weight(nodes, node_key, node_key) > 0
    /\ node_score > n_scores[node_key]

\* C10, as claimed: every queue entry carries floor((p_score - n_score) * 10)
\* of the node's scores at its push, negative net scores included.
C10_PriorityIsFloor ==
    \A v \in DOMAIN pq :
        pq[v] = ((p_scores[v] - n_scores[v]) * 10) \div Scale

\* C10, amended: every queue entry carries (p_score - n_score) * 10
\* truncated to an unsigned integer: floor for a net score >= 0, and 0 for a
\* negative net score.
C10_PriorityIsTruncated ==
    \A v \in DOMAIN pq :
        pq[v] = IF p_scores[v] - n_scores[v] < 0 THEN 0
                ELSE ((p_scores[v] - n_scores[v]) * 10) \div Scale

\* queued entries of both signs, pushed by relaxations
C10_Witness ==
    /\ relaxations >= 2
    /\ \E v \in DOMAIN pq : p_scores[v] - n_scores[v] < 0 /\ pq[v] = 0
    /\ \E v \in DOMAIN pq : p_scores[v] - n_scores[v] > 0 /\ pq[v] = 5

====
